---------------------------- MODULE Spec2Model ----------------------------
(***************************************************************************)
(* Model of the Wasmtime JNI bridge, native/wasmtime-android/src/          *)
(* wasmtime_jni.c.  The file exports six JNI entry points and declares no  *)
(* static or global data: every entry point logs its arguments and returns *)
(* a constant.  The native side therefore has no state of its own; the     *)
(* state of the model is what the host application can observe at the      *)
(* boundary: the operation it performed last, the arguments it passed, the *)
(* value that came back, the handles it has been given and the handles it  *)
(* has asked to be destroyed.                                               *)
(*                                                                         *)
(* Logging (__android_log_print) is a diagnostics transport and is not     *)
(* modelled.  The jstring arguments are taken to be non-null Java strings  *)
(* and the JNI string functions to succeed (no out-of-memory).             *)
(***************************************************************************)
EXTENDS Integers, FiniteSets, Sequences, TLC

\* Largest handle value the host application passes in (0 is included).
MaxHandle == 3

\* jlong values the host passes as module_handle / instance_handle.
Handles == 0..MaxHandle

\* jbyteArray contents handed to loadModuleFromBytes: a well-formed module
\* exporting add(i32,i32)->i32, and bytes that are not WebAssembly.
WasmBytes == {"add.wasm", "garbage"}

\* java.io.File objects handed to loadModule.
WasmFiles == {"/data/add.wasm", "/nonexistent"}

\* wasi_config_json documents handed to instantiate.
WasiConfigs == {"{}", "{\"preopens\":[{\"guestPath\":\"/\",\"hostPath\":\"/nonexistent\"}]}"}

\* function_name strings handed to call.
FunctionNames == {"add", "spin"}

\* args_json documents handed to call.
ArgsDocs == {"[2,3]", "[]"}

OpNames == {"loadModuleFromBytes", "loadModule", "instantiate", "call",
            "destroyInstance", "destroyModule"}

\* The document call returns, "{\"result\":\"stub\"}", as the JSON object it
\* denotes: one key, "result", whose value is the string "stub".
StubResult == [result |-> "stub"]

\* No jstring has been returned (the last operation was not call).
NoDocument == [none |-> TRUE]

\* The failure document of the result schema, used by the claims.
ErrorDocument(kind) == [ok |-> FALSE, kind |-> kind, message |-> ""]

VARIABLES
    lastOp,      \* name of the entry point the host called last, or "none"
    lastHandle,  \* the jlong handle argument of that call (0 when it has none)
    lastInput,   \* its other arguments, as a pair of strings
    retHandle,   \* the jlong it returned (0 when it returns none)
    retDocument, \* the jstring it returned, as a JSON object
    issued,      \* nonzero handles returned to the host so far
    destroyed,   \* handles the host has passed to destroyInstance/destroyModule
    opsDone      \* entry points the host has called so far

vars == <<lastOp, lastHandle, lastInput, retHandle, retDocument, issued,
          destroyed, opsDone>>

-----------------------------------------------------------------------------
(* Return values of the entry points, as the code computes them.  Each      *)
(* takes the arguments of the entry point and the destroyed set, so that a  *)
(* dependence on either is expressible; the code reads none of them.        *)

\* return 0;
loadModuleFromBytes_ret(wasm_bytes) == 0

\* return 0;
loadModule_ret(wasm_file) == 0

\* return 0;
instantiate_ret(module_handle, wasi_config_json) == 0

call_ret_checks_handle(instance_handle, function_name, args_json, released) ==
    IF instance_handle = 0 \/ instance_handle \in released
    THEN ErrorDocument("InvalidHandle")
    ELSE StubResult

\* return (*env)->NewStringUTF(env, "{\"result\":\"stub\"}");
call_ret(instance_handle, function_name, args_json, released) == StubResult

Issue(h) == IF h = 0 THEN issued ELSE issued \cup {h}

-----------------------------------------------------------------------------
Init ==
    /\ lastOp = "none"
    /\ lastHandle = 0
    /\ lastInput = <<"", "">>
    /\ retHandle = 0
    /\ retDocument = NoDocument
    /\ issued = {}
    /\ destroyed = {}
    /\ opsDone = {}

loadModuleFromBytes ==
    \E wasm_bytes \in WasmBytes :
        /\ lastOp' = "loadModuleFromBytes"
        /\ lastHandle' = 0
        /\ lastInput' = <<wasm_bytes, "">>
        /\ retHandle' = loadModuleFromBytes_ret(wasm_bytes)
        /\ retDocument' = NoDocument
        /\ issued' = Issue(loadModuleFromBytes_ret(wasm_bytes))
        /\ opsDone' = opsDone \cup {"loadModuleFromBytes"}
        /\ UNCHANGED destroyed

loadModule ==
    \E wasm_file \in WasmFiles :
        /\ lastOp' = "loadModule"
        /\ lastHandle' = 0
        /\ lastInput' = <<wasm_file, "">>
        /\ retHandle' = loadModule_ret(wasm_file)
        /\ retDocument' = NoDocument
        /\ issued' = Issue(loadModule_ret(wasm_file))
        /\ opsDone' = opsDone \cup {"loadModule"}
        /\ UNCHANGED destroyed

instantiate ==
    \E module_handle \in Handles, wasi_config_json \in WasiConfigs :
        /\ lastOp' = "instantiate"
        /\ lastHandle' = module_handle
        /\ lastInput' = <<wasi_config_json, "">>
        /\ retHandle' = instantiate_ret(module_handle, wasi_config_json)
        /\ retDocument' = NoDocument
        /\ issued' = Issue(instantiate_ret(module_handle, wasi_config_json))
        /\ opsDone' = opsDone \cup {"instantiate"}
        /\ UNCHANGED destroyed

call ==
    \E instance_handle \in Handles, function_name \in FunctionNames,
       args_json \in ArgsDocs :
        /\ lastOp' = "call"
        /\ lastHandle' = instance_handle
        /\ lastInput' = <<function_name, args_json>>
        /\ retHandle' = 0
        /\ retDocument' = call_ret(instance_handle, function_name, args_json,
                                   destroyed)
        /\ opsDone' = opsDone \cup {"call"}
        /\ UNCHANGED <<issued, destroyed>>

destroyInstance ==
    \E instance_handle \in Handles :
        /\ lastOp' = "destroyInstance"
        /\ lastHandle' = instance_handle
        /\ lastInput' = <<"", "">>
        /\ retHandle' = 0
        /\ retDocument' = NoDocument
        /\ destroyed' = destroyed \cup {instance_handle}
        /\ opsDone' = opsDone \cup {"destroyInstance"}
        /\ UNCHANGED issued

destroyModule ==
    \E module_handle \in Handles :
        /\ lastOp' = "destroyModule"
        /\ lastHandle' = module_handle
        /\ lastInput' = <<"", "">>
        /\ retHandle' = 0
        /\ retDocument' = NoDocument
        /\ destroyed' = destroyed \cup {module_handle}
        /\ opsDone' = opsDone \cup {"destroyModule"}
        /\ UNCHANGED issued

Next ==
    \/ loadModuleFromBytes
    \/ loadModule
    \/ instantiate
    \/ call
    \/ destroyInstance
    \/ destroyModule

Spec == Init /\ [][Next]_vars

-----------------------------------------------------------------------------
(* Shapes of the result schema of the call boundary.                        *)

IsSuccessDocument(d) ==
    /\ DOMAIN d = {"ok", "values"}
    /\ d.ok = TRUE
    /\ DOMAIN d.values = 1..Len(d.values)

IsFailureDocument(d) ==
    /\ DOMAIN d = {"ok", "kind", "message"}
    /\ d.ok = FALSE

ReportsError(d, kind) ==
    /\ IsFailureDocument(d)
    /\ d.kind = kind

-----------------------------------------------------------------------------
CallResultIsStructured ==
    lastOp = "call"
        => (IsSuccessDocument(retDocument) \/ IsFailureDocument(retDocument))

\* C8: handle 0 never denotes a valid object: 0 is never issued as a handle,
\* instantiate given module handle 0 fails (returns 0), and call given handle
\* 0 reports InvalidHandle.
ZeroHandleIsInvalid ==
    /\ 0 \notin issued
    /\ (lastOp = "instantiate" /\ lastHandle = 0) => retHandle = 0
    /\ (lastOp = "call" /\ lastHandle = 0)
           => ReportsError(retDocument, "InvalidHandle")

\* C10: in the code as written, loadModuleFromBytes, loadModule and
\* instantiate return 0 for every argument, so no nonzero handle is ever
\* issued; call returns the same fixed document whatever the handle, the
\* function name, the args and the operations before it, a destroy of that
\* handle included; and a destroy leaves the set of issued handles and the
\* result of the next call as they were.
StubBoundaryIsConstant ==
    /\ issued = {}
    /\ lastOp \in {"loadModuleFromBytes", "loadModule", "instantiate"}
           => retHandle = 0
    /\ lastOp = "call" => retDocument = StubResult
    /\ \A h \in Handles, f \in FunctionNames, a \in ArgsDocs :
           call_ret(h, f, a, destroyed) = call_ret(h, f, a, {})

\* C10 witness: every entry point has been called, and the last operation is
\* a call with a nonzero handle that was passed to a destroy before.
StubBoundaryWitness ==
    /\ opsDone = OpNames
    /\ lastOp = "call"
    /\ lastHandle # 0
    /\ lastHandle \in destroyed
    /\ lastInput = <<"add", "[2,3]">>
    /\ retDocument = StubResult

=============================================================================
